---- MODULE Spec2Model ----
(***************************************************************************)
(* Model of scripts/claude_learning.py: the store adapter ClaudeLearning,  *)
(* the web search and content fetch helpers, the reply parsing of          *)
(* choose_learning_topic and reflect_on_learning, perform_research and the *)
(* orchestrator run_learning_session.                                      *)
(*                                                                         *)
(* Python None and SQL NULL are the string "null" for text values and 0    *)
(* for row ids (serial ids start at 1, and the code tests ids by truth     *)
(* value, which treats None and 0 alike).  A Python dict is a TLA+ record  *)
(* and d.get(k, default) is DictGet(d, k, default).                        *)
(***************************************************************************)
EXTENDS Integers, Sequences, FiniteSets, TLC

\* ------------------------------------------------------------------ bounds

NumProcs == 2
MaxLifeSessions == 2
MaxQueued == 1
MaxAdded == 1
MaxResults == 3
MaxReplyLen == 4
MaxUpdates == 3

\* ------------------------------------------------------- program constants

MAX_SEARCH_QUERIES == 3
TOP_PER_QUERY == 2
DEEPENING_THRESHOLD == 10

Null == "null"
Procs == 1..NumProcs

\* ----------------------------------------------------------------- helpers

DictGet(d, k, default) == IF k \in DOMAIN d THEN d[k] ELSE default

Min(a, b) == IF a < b THEN a ELSE b

\* s[:n]
Take(s, n) == SubSeq(s, 1, Min(Len(s), n))

\* [x] * n
Rep(x, n) == [i \in 1..n |-> x]

\* None where a dict is expected; None and the empty dict are both falsy
PyNone == [k \in {} |-> Null]
Truthy(d) == DOMAIN d # {}

\* result of a call: a returned value or a raised exception
Ret(v) == [raised |-> FALSE, exc |-> [cls |-> "none", msg |-> ""], value |-> v]
Raise(e) == [raised |-> TRUE, exc |-> e, value |-> Null]

\* --------------------------------------------------------------- exceptions

NoExc == [cls |-> "none", msg |-> ""]
DbError == [cls |-> "psycopg2.Error", msg |-> "connection lost"]
LlmError == [cls |-> "anthropic.APIError", msg |-> "api unavailable"]
SearchError == [cls |-> "DuckDuckGoSearchException", msg |-> "ratelimit"]

\* except Exception as e: every class raised in a run derives from Exception
outer_except_llm_only(e) == e.cls = "anthropic.APIError"
outer_except(e) == TRUE

\* ------------------------------------------------------- reply text parsing
\* The text of an LLM reply is a sequence of tokens:
\*   "F"  a code fence ```            "j"  the word json
\*   "V"  the text of one JSON value  "x"  any other text   "w"  white space
\* '```json' is <<"F", "j">>.  json.loads accepts exactly one JSON value.

Tokens == {"F", "j", "V", "x", "w"}
FENCE == <<"F">>
FENCE_JSON == <<"F", "j">>

\* first index at which pat occurs in s, 0 when it does not
IndexOf(s, pat) ==
    LET hits == {i \in 1..(Len(s) - Len(pat) + 1) : SubSeq(s, i, i + Len(pat) - 1) = pat}
    IN IF hits = {} THEN 0 ELSE CHOOSE i \in hits : \A k \in hits : i <= k

\* pat in s
Contains(s, pat) == IndexOf(s, pat) # 0

\* s.split(pat)
RECURSIVE PySplit(_, _)
PySplit(s, pat) ==
    LET i == IndexOf(s, pat)
    IN IF i = 0 THEN <<s>>
       ELSE <<SubSeq(s, 1, i - 1)>> \o PySplit(SubSeq(s, i + Len(pat), Len(s)), pat)

\* s.strip()
RECURSIVE LStrip(_)
LStrip(s) == IF s # <<>> /\ Head(s) = "w" THEN LStrip(Tail(s)) ELSE s
RECURSIVE RStrip(_)
RStrip(s) == IF s # <<>> /\ s[Len(s)] = "w" THEN RStrip(SubSeq(s, 1, Len(s) - 1)) ELSE s
Strip(s) == RStrip(LStrip(s))

\* json.loads(s): the decoded value, or JSONDecodeError
json_loads(s, value) ==
    IF s = <<"V">> THEN [raised |-> FALSE, exc |-> "none", value |-> value]
    ELSE [raised |-> TRUE, exc |-> "JSONDecodeError", value |-> value]

\* the body of the try block: content[0].text, fence stripping, json.loads
extract_fenced(content) ==
    IF Contains(content, FENCE_JSON)
    THEN PySplit(PySplit(content, FENCE_JSON)[2], FENCE)[1]
    ELSE IF Contains(content, FENCE)
         THEN PySplit(PySplit(content, FENCE)[2], FENCE)[1]
         ELSE content

try_parse(response) ==
    IF Len(response.content) = 0
    THEN [raised |-> TRUE, exc |-> "IndexError", value |-> response.value]
    ELSE json_loads(Strip(extract_fenced(response.content[1])), response.value)

\* except (json.JSONDecodeError, IndexError)
parse_except_index_only == {"IndexError"}
parse_except == {"JSONDecodeError", "IndexError"}

\* value returned by the try/except around the parse: the decoded value, the
\* fallback when the exception is one the except clause names, else the
\* exception leaves the function
parse_reply(response, fallback) ==
    LET r == try_parse(response)
    IN IF ~r.raised THEN [raised |-> FALSE, value |-> r.value]
       ELSE IF r.exc \in parse_except THEN [raised |-> FALSE, value |-> fallback]
       ELSE [raised |-> TRUE, value |-> fallback]

FallbackTopicChoice ==
    [choice_type |-> "new_topic",
     topic |-> "Python best practices 2026",
     search_queries |-> <<"Python best practices 2026", "modern Python development patterns">>,
     why_now |-> "Fallback topic for continued learning",
     hoping_to_learn |-> "Current Python development standards"]

FallbackReflection ==
    [summary |-> "Research completed but reflection parsing failed.",
     key_insights |-> <<>>,
     new_questions |-> <<>>,
     confidence |-> "low",
     applicable_to |-> <<>>,
     new_interest_sparked |-> PyNone]

\* ------------------------------------------------------------ store adapter
\* Column defaults set by the schema and by the SQL functions
\* add_learning_interest and queue_research, which are not in the sources.
SESSION_DEFAULT_STATUS == "in_progress"
REQUEST_DEFAULT_STATUS == "pending"
INTEREST_DEFAULT_STATUS == "curious"

\* INSERT INTO learning_sessions (session_type) ... RETURNING id
start_learning_session(tbl) ==
    Append(tbl, [status |-> SESSION_DEFAULT_STATUS, topic_chosen |-> Null,
                 insights_count |-> 0, new_questions_count |-> 0,
                 new_interests_sparked |-> 0, error_message |-> Null])

\* UPDATE learning_sessions SET ... WHERE id = session_id
complete_learning_session(tbl, sid, topic, status, insights_count, questions_count, new_interests, error) ==
    [i \in DOMAIN tbl |->
        IF i = sid
        THEN [status |-> status, topic_chosen |-> topic,
              insights_count |-> insights_count, new_questions_count |-> questions_count,
              new_interests_sparked |-> new_interests, error_message |-> error]
        ELSE tbl[i]]

\* SELECT queue_research(...): a new request row, its id is the row number
queue_research(tbl, topic, interest) ==
    Append(tbl, [status |-> REQUEST_DEFAULT_STATUS, topic |-> topic,
                 interest_id |-> interest, error_message |-> Null])

\* SELECT * FROM research_requests WHERE status = 'pending' ...: the ids of
\* the rows returned
get_pending_research(tbl) == {i \in DOMAIN tbl : tbl[i].status = "pending"}

\* UPDATE research_requests SET status = ... WHERE id = request_id; only the
\* 'failed' branch writes error_message
update_research_status_guarded(tbl, rid, status, error) ==
    [i \in DOMAIN tbl |->
        IF i = rid /\ tbl[i].status \notin {"completed", "failed"}
        THEN IF status = "failed"
             THEN [tbl[i] EXCEPT !.status = status, !.error_message = error]
             ELSE [tbl[i] EXCEPT !.status = status]
        ELSE tbl[i]]
update_research_status(tbl, rid, status, error) ==
    [i \in DOMAIN tbl |->
        IF i = rid
        THEN IF status = "failed"
             THEN [tbl[i] EXCEPT !.status = status, !.error_message = error]
             ELSE [tbl[i] EXCEPT !.status = status]
        ELSE tbl[i]]

\* INSERT INTO research_results ...
save_research_result(tbl, rid, query, url, title, snippet, content) ==
    Append(tbl, [request_id |-> rid, query_used |-> query, source_url |-> url,
                 source_title |-> title, snippet |-> snippet, full_content |-> content])

\* SELECT record_insight(...)
record_insight(tbl, topic, insights, questions, confidence, rid, interest) ==
    Append(tbl, [topic |-> topic, insights |-> insights, questions |-> questions,
                 confidence |-> confidence, request_id |-> rid, interest_id |-> interest])

\* SELECT add_learning_interest(...)
add_learning_interest(tbl, topic) ==
    Append(tbl, [topic |-> topic, status |-> INTEREST_DEFAULT_STATUS,
                 insights_gained |-> <<>>, remaining_questions |-> <<>>])

\* the CASE of the UPDATE; every column on the right is the row before the update
interest_status_threshold_first(old, n_new) ==
    IF Len(old.insights_gained) + n_new > DEEPENING_THRESHOLD THEN "deepening"
    ELSE IF old.status = "curious" THEN "exploring"
    ELSE old.status
interest_status(old, n_new) ==
    IF old.status = "curious" THEN "exploring"
    ELSE IF Len(old.insights_gained) + n_new > DEEPENING_THRESHOLD THEN "deepening"
    ELSE old.status

\* UPDATE learning_interests SET insights_gained = insights_gained || %s,
\*   remaining_questions = COALESCE(%s, remaining_questions), status = CASE ...
\* where the second parameter is Json(questions) if questions else None
update_interest_insights(tbl, iid, insights, questions) ==
    [i \in DOMAIN tbl |->
        IF i = iid
        THEN [tbl[i] EXCEPT
                !.insights_gained = tbl[i].insights_gained \o insights,
                !.remaining_questions =
                    IF questions # <<>> THEN questions ELSE tbl[i].remaining_questions,
                !.status = interest_status(tbl[i], Len(insights))]
        ELSE tbl[i]]

\* ------------------------------------------------- web search, content fetch
\* One hit of the provider: a dict in the href/body or in the link/snippet
\* convention, or one that carries no url.
RawHit(i, style) ==
    LET url == IF i = 1 THEN "u1" ELSE IF i = 2 THEN "u2" ELSE "u3+"
    IN CASE style = "href" -> [href |-> url, title |-> "t", body |-> "s"]
         [] style = "link" -> [link |-> url, title |-> "t", snippet |-> "s"]
         [] OTHER -> [title |-> "t", body |-> "s"]

\* the dict search_web builds from one hit
ToResult(r) ==
    [url |-> DictGet(r, "href", DictGet(r, "link", "")),
     title |-> DictGet(r, "title", ""),
     snippet |-> DictGet(r, "body", DictGet(r, "snippet", ""))]

\* what the provider does on one search: raises, or returns up to MaxResults hits
HitLists ==
    {[i \in 1..n |-> RawHit(i, "href")] : n \in 0..MaxResults}
    \cup {[i \in 1..n |-> RawHit(i, "link")] : n \in 1..MaxResults}
    \cup {[i \in 1..n |-> RawHit(i, IF i = 1 THEN "nourl" ELSE "href")] : n \in 1..MaxResults}
ProviderOutcomes == {Raise(SearchError)} \cup {Ret(h) : h \in HitLists}

\* try: ... return [...]  except Exception: return []
search_web(outcome) ==
    IF outcome.raised THEN Ret(<<>>)
    ELSE Ret([i \in 1..Len(outcome.value) |-> ToResult(outcome.value[i])])

\* what requests.get / raise_for_status / html2text do on one fetch
FetchFailures == {"network_error", "timeout", "http_error", "parse_error"}
FetchOutcomes == {"ok"} \cup FetchFailures
FetchError(kind) == [cls |-> "requests.RequestException", msg |-> kind]

\* try: ... return text  except Exception: return None
fetch_page_content_propagates(outcome) ==
    IF outcome \in FetchFailures THEN Raise(FetchError(outcome)) ELSE Ret("text")
fetch_page_content(outcome) ==
    IF outcome \in FetchFailures THEN Ret(Null) ELSE Ret("text")

\* queries[:MAX_SEARCH_QUERIES] and results[:2]
queries_slice_all(queries) == queries
queries_slice(queries) == Take(queries, MAX_SEARCH_QUERIES)
results_slice_three(results) == Take(results, MaxResults)
results_slice(results) == Take(results, TOP_PER_QUERY)

\* if not results
no_results_never(results) == FALSE
no_results(results) == Len(results) = 0

\* -------------------------------------------------------------------- state

VARIABLES
    learning_sessions, research_requests, research_results,
    learning_insights, learning_interests,
    pc, session_id, topic_choice, request_id, cur_query, todo_queries,
    todo_results, all_results, reflection, result,
    raised, escaped, choose_call, reflect_call, pending_seen, research_returned,
    search_calls, fetch_calls, query_fetches, last_call, search_profile, saved_rows,
    cli_calls, n_updates, last_update,
    reply, parsed,
    process_exit

store == <<learning_sessions, research_requests, research_results,
           learning_insights, learning_interests>>
ctl == <<pc, result, raised, escaped>>
locals == <<session_id, topic_choice, request_id, cur_query, todo_queries,
            todo_results, all_results, reflection>>
llm_calls == <<choose_call, reflect_call, pending_seen>>
research_hist == <<research_returned, search_calls, fetch_calls, query_fetches,
                   last_call, search_profile, saved_rows>>
calls == <<llm_calls, research_hist>>
interest_hist == <<n_updates, last_update>>
parse_vars == <<reply, parsed>>
vars == <<store, ctl, locals, calls, cli_calls, interest_hist, parse_vars, process_exit>>

NoResult == [status |-> "none"]
NoUpdate == [id |-> 0, nth |-> 0, before_status |-> Null, before_len |-> 0, added |-> 0]
NoReply == [content |-> <<>>]
NotParsed == [by |-> "none", raised |-> FALSE, value |-> PyNone]
NoExit == [entry |-> "none", status_line |-> Null, exit_code |-> -1]

\* the locals topic, queries and interest_id of run_learning_session
topic_of(choice) == DictGet(choice, "topic", "Unknown")
queries_of(choice) == DictGet(choice, "search_queries", <<>>)
interest_of(choice) == DictGet(choice, "interest_id", 0)

InitStore ==
    /\ learning_sessions = <<>>
    /\ research_requests = <<>>
    /\ research_results = <<>>
    /\ learning_insights = <<>>
    /\ learning_interests = <<>>

InitProcs ==
    /\ pc = [p \in Procs |-> "idle"]
    /\ session_id = [p \in Procs |-> 0]
    /\ topic_choice = [p \in Procs |-> PyNone]
    /\ request_id = [p \in Procs |-> 0]
    /\ cur_query = [p \in Procs |-> Null]
    /\ todo_queries = [p \in Procs |-> <<>>]
    /\ todo_results = [p \in Procs |-> <<>>]
    /\ all_results = [p \in Procs |-> <<>>]
    /\ reflection = [p \in Procs |-> PyNone]
    /\ result = [p \in Procs |-> NoResult]
    /\ raised = [p \in Procs |-> NoExc]
    /\ escaped = [p \in Procs |-> FALSE]
    /\ choose_call = [p \in Procs |-> "none"]
    /\ pending_seen = [p \in Procs |-> {}]
    /\ reflect_call = [p \in Procs |-> "none"]
    /\ research_returned = [p \in Procs |-> FALSE]
    /\ search_calls = [p \in Procs |-> 0]
    /\ fetch_calls = [p \in Procs |-> 0]
    /\ query_fetches = [p \in Procs |-> 0]
    /\ last_call = [p \in Procs |-> "none"]
    /\ search_profile = [p \in Procs |-> "three_with_urls"]
    /\ saved_rows = [p \in Procs |-> {}]
    /\ process_exit = [p \in Procs |-> NoExit]

InitRest ==
    /\ cli_calls = [queued |-> 0, added |-> 0, updates |-> 0]
    /\ n_updates = <<>>
    /\ last_update = NoUpdate

Init ==
    /\ InitStore /\ InitProcs /\ InitRest
    /\ reply = NoReply
    /\ parsed = NotParsed

\* ------------------------------------------------- control flow of one run

\* return {"status": "failed", "error": "No results found", "topic": topic}
failed_result_without_topic(topic) == [status |-> "failed", error |-> "No results found"]
failed_result(topic) == [status |-> "failed", error |-> "No results found", topic |-> topic]

\* return {"status": "error", "error": str(e)}
error_result(e) == [status |-> "error", error |-> e.msg]

Goto(p, label) ==
    /\ pc' = [pc EXCEPT ![p] = label]
    /\ UNCHANGED <<result, raised, escaped>>

\* return <value>
Return(p, value) ==
    /\ pc' = [pc EXCEPT ![p] = "done"]
    /\ result' = [result EXCEPT ![p] = value]
    /\ UNCHANGED <<raised, escaped>>

\* an exception raised inside the try of run_learning_session:
\* except Exception as e: return {"status": "error", "error": str(e)}
Handle(p, e) ==
    /\ pc' = [pc EXCEPT ![p] = "done"]
    /\ raised' = [raised EXCEPT ![p] = e]
    /\ IF outer_except(e)
       THEN /\ result' = [result EXCEPT ![p] = error_result(e)]
            /\ UNCHANGED escaped
       ELSE /\ escaped' = [escaped EXCEPT ![p] = TRUE]
            /\ UNCHANGED result

\* ------------------------------------------------------ the two LLM callers
\* An LLM outcome is Raise(exception) when client.messages.create (or the
\* client and context lookups before it) raises, else Ret(response) with
\* response.content the list of text blocks and response.value the value
\* that the "V" token of the text decodes to.

\* choose_learning_topic: the call is made before the try block
choose_learning_topic_call_in_try(outcome) ==
    IF outcome.raised THEN Ret(FallbackTopicChoice)
    ELSE LET r == parse_reply(outcome.value, FallbackTopicChoice)
         IN IF r.raised THEN Raise([cls |-> "ParseError", msg |-> "parse"]) ELSE Ret(r.value)
choose_learning_topic(outcome) ==
    IF outcome.raised THEN Raise(outcome.exc)
    ELSE LET r == parse_reply(outcome.value, FallbackTopicChoice)
         IN IF r.raised THEN Raise([cls |-> "ParseError", msg |-> "parse"]) ELSE Ret(r.value)

\* reflect_on_learning: the same shape, with its own fallback
reflect_on_learning(outcome) ==
    IF outcome.raised THEN Raise(outcome.exc)
    ELSE LET r == parse_reply(outcome.value, FallbackReflection)
         IN IF r.raised THEN Raise([cls |-> "ParseError", msg |-> "parse"]) ELSE Ret(r.value)

\* ------------------------------------------------------------------- inputs

\* decoded topic choices; research_id and interest_id are optional keys
BaseChoice(qs) ==
    [choice_type |-> "new_topic", topic |-> "T", search_queries |-> qs,
     why_now |-> "why", hoping_to_learn |-> "hope"]
WithKey(d, k, v) == IF v = 0 THEN d ELSE d @@ (k :> v)
QueryLists == {<<>>, <<"q1">>, <<"q1", "q2", "q3", "q4">>}
TopicChoices ==
    {WithKey(WithKey(BaseChoice(qs), "research_id", rid), "interest_id", iid) :
        qs \in QueryLists, rid \in {0, 1}, iid \in {0, 1}}
    \cup {[choice_type |-> "new_topic"]}

\* reply texts: not JSON, bare JSON, JSON in a ```json fence
PlainText == <<"x">>
BareJson == <<"V">>
FencedJson == <<"x", "F", "j", "w", "V", "w", "F">>
Response(text, value) == [content |-> <<text>>, value |-> value]

TopicOutcomes ==
    {Raise(LlmError), Ret(Response(PlainText, PyNone))}
    \cup {Ret(Response(t, c)) : t \in {BareJson, FencedJson}, c \in TopicChoices}

Reflections ==
    {[summary |-> "sum", key_insights |-> <<"i1", "i2">>, new_questions |-> <<"n1">>,
      confidence |-> "high", applicable_to |-> <<>>, new_interest_sparked |-> PyNone],
     [summary |-> "sum", key_insights |-> <<"i1", "i2", "i3">>, new_questions |-> <<>>,
      confidence |-> "medium", applicable_to |-> <<>>,
      new_interest_sparked |-> [topic |-> "N", why |-> "y"]],
     [summary |-> "sum", key_insights |-> <<>>, new_questions |-> <<"n1", "n2">>,
      confidence |-> "low", applicable_to |-> <<>>,
      new_interest_sparked |-> [topic |-> Null, why |-> Null]]}

ReflectOutcomes ==
    {Raise(LlmError), Ret(Response(PlainText, PyNone))}
    \cup {Ret(Response(t, r)) : t \in {BareJson, FencedJson}, r \in Reflections}

\* --------------------------------------------------- run_learning_session

ResetLocals(p) ==
    /\ topic_choice' = [topic_choice EXCEPT ![p] = PyNone]
    /\ request_id' = [request_id EXCEPT ![p] = 0]
    /\ cur_query' = [cur_query EXCEPT ![p] = Null]
    /\ todo_queries' = [todo_queries EXCEPT ![p] = <<>>]
    /\ todo_results' = [todo_results EXCEPT ![p] = <<>>]
    /\ all_results' = [all_results EXCEPT ![p] = <<>>]
    /\ reflection' = [reflection EXCEPT ![p] = PyNone]
    /\ choose_call' = [choose_call EXCEPT ![p] = "none"]
    /\ pending_seen' = [pending_seen EXCEPT ![p] = {}]
    /\ reflect_call' = [reflect_call EXCEPT ![p] = "none"]
    /\ research_returned' = [research_returned EXCEPT ![p] = FALSE]
    /\ search_calls' = [search_calls EXCEPT ![p] = 0]
    /\ fetch_calls' = [fetch_calls EXCEPT ![p] = 0]
    /\ query_fetches' = [query_fetches EXCEPT ![p] = 0]
    /\ last_call' = [last_call EXCEPT ![p] = "none"]
    /\ search_profile' = [search_profile EXCEPT ![p] = "three_with_urls"]
    /\ saved_rows' = [saved_rows EXCEPT ![p] = {}]

\* session_id = learning.start_learning_session()
StartSession(p) ==
    /\ pc[p] = "idle"
    /\ \/ /\ learning_sessions' = start_learning_session(learning_sessions)
          /\ session_id' = [session_id EXCEPT ![p] = Len(learning_sessions) + 1]
          /\ Goto(p, "choose")
       \/ /\ Handle(p, DbError)
          /\ UNCHANGED <<learning_sessions, session_id>>
    /\ UNCHANGED <<research_requests, research_results, learning_insights,
                   learning_interests, topic_choice, request_id, cur_query,
                   todo_queries, todo_results, all_results, reflection, calls,
                   cli_calls, interest_hist, parse_vars, process_exit>>

\* the process has exited after its run, and the scheduler starts the next
\* one: asyncio.run(run_learning_session(learning)) in a new process
NewInvocation(p, max_sessions) ==
    /\ pc[p] = "exited"
    /\ Len(learning_sessions) < max_sessions
    /\ ResetLocals(p)
    /\ session_id' = [session_id EXCEPT ![p] = 0]
    /\ pc' = [pc EXCEPT ![p] = "idle"]
    /\ result' = [result EXCEPT ![p] = NoResult]
    /\ raised' = [raised EXCEPT ![p] = NoExc]
    /\ escaped' = [escaped EXCEPT ![p] = FALSE]
    /\ process_exit' = [process_exit EXCEPT ![p] = NoExit]
    /\ UNCHANGED <<store, cli_calls, interest_hist, parse_vars>>

\* topic_choice = choose_learning_topic(learning); request_id, interest_id
ChooseTopic(p, outcomes) ==
    /\ pc[p] = "choose"
    /\ \E o \in outcomes :
        LET r == choose_learning_topic(o)
        IN /\ choose_call' = [choose_call EXCEPT ![p] = IF o.raised THEN "raised" ELSE "replied"]
           /\ pending_seen' = [pending_seen EXCEPT ![p] =
                   IF o.raised THEN {} ELSE get_pending_research(research_requests)]
           /\ IF r.raised
              THEN /\ Handle(p, r.exc)
                   /\ UNCHANGED <<topic_choice, request_id>>
              ELSE /\ topic_choice' = [topic_choice EXCEPT ![p] = r.value]
                   /\ request_id' = [request_id EXCEPT ![p] = DictGet(r.value, "research_id", 0)]
                   /\ Goto(p, "resolve")
    /\ UNCHANGED <<store, session_id, cur_query, todo_queries, todo_results,
                   all_results, reflection, reflect_call, research_hist, cli_calls,
                   interest_hist, parse_vars, process_exit>>

\* if not request_id: request_id = learning.queue_research(...)
ResolveRequest(p) ==
    /\ pc[p] = "resolve"
    /\ IF request_id[p] = 0
       THEN \/ /\ research_requests' =
                    queue_research(research_requests, topic_of(topic_choice[p]),
                                   interest_of(topic_choice[p]))
               /\ request_id' = [request_id EXCEPT ![p] = Len(research_requests) + 1]
               /\ Goto(p, "mark")
            \/ /\ Handle(p, DbError)
               /\ UNCHANGED <<research_requests, request_id>>
       ELSE /\ Goto(p, "mark")
            /\ UNCHANGED <<research_requests, request_id>>
    /\ UNCHANGED <<learning_sessions, research_results, learning_insights,
                   learning_interests, session_id, topic_choice, cur_query,
                   todo_queries, todo_results, all_results, reflection, calls,
                   cli_calls, interest_hist, parse_vars, process_exit>>

\* learning.update_research_status(request_id, 'in_progress'), then
\* perform_research is entered: all_results = [], for query in queries[:3]
MarkInProgress(p) ==
    /\ pc[p] = "mark"
    /\ research_requests' =
         update_research_status(research_requests, request_id[p], "in_progress", Null)
    /\ all_results' = [all_results EXCEPT ![p] = <<>>]
    /\ todo_queries' = [todo_queries EXCEPT ![p] = queries_slice(queries_of(topic_choice[p]))]
    /\ todo_results' = [todo_results EXCEPT ![p] = <<>>]
    /\ Goto(p, "research")
    /\ UNCHANGED <<learning_sessions, research_results, learning_insights,
                   learning_interests, session_id, topic_choice, request_id,
                   cur_query, reflection, calls, cli_calls, interest_hist, parse_vars, process_exit>>

\* what the searches of this perform_research call have returned so far:
\* "three_with_urls" when each returned exactly three results, all with a
\* url; "three" when each returned exactly three results; else "other"
profile_after(profile, results) ==
    IF Len(results) # 3 THEN "other"
    ELSE IF \E i \in 1..3 : results[i].url = ""
         THEN (IF profile = "other" THEN "other" ELSE "three")
         ELSE profile

\* perform_research, one iteration of the outer loop:
\* results = search_web(query); for result in results[:2]
Search(p, outcomes) ==
    /\ pc[p] = "research"
    /\ todo_results[p] = <<>>
    /\ todo_queries[p] # <<>>
    /\ \E o \in outcomes :
        LET r == search_web(o)
        IN /\ search_calls' = [search_calls EXCEPT ![p] = @ + 1]
           /\ query_fetches' = [query_fetches EXCEPT ![p] = 0]
           /\ last_call' = [last_call EXCEPT ![p] =
                               IF o.raised THEN "search_failed" ELSE "search_ok"]
           /\ search_profile' = [search_profile EXCEPT ![p] = profile_after(@, r.value)]
           /\ cur_query' = [cur_query EXCEPT ![p] = Head(todo_queries[p])]
           /\ todo_queries' = [todo_queries EXCEPT ![p] = Tail(@)]
           /\ IF r.raised
              THEN /\ Handle(p, r.exc)
                   /\ UNCHANGED todo_results
              ELSE /\ todo_results' = [todo_results EXCEPT ![p] = results_slice(r.value)]
                   /\ Goto(p, "research")
    /\ UNCHANGED <<store, session_id, topic_choice, request_id, all_results,
                   reflection, llm_calls, research_returned, fetch_calls,
                   saved_rows, cli_calls, interest_hist, parse_vars, process_exit>>

\* the dict appended to all_results for one result
result_data(query, res, content) ==
    [query |-> query, url |-> res.url, title |-> res.title,
     snippet |-> res.snippet, content |-> content]

\* if request_id: learning.save_research_result(...)
should_save_never(rid) == FALSE
should_save(rid) == rid # 0

\* perform_research, one iteration of the inner loop:
\* if not url: continue; content = fetch_page_content(url);
\* all_results.append(result_data); if request_id: save_research_result(...)
Fetch(p, outcomes) ==
    /\ pc[p] = "research"
    /\ todo_results[p] # <<>>
    /\ todo_results' = [todo_results EXCEPT ![p] = Tail(@)]
    /\ LET res == Head(todo_results[p])
       IN IF res.url = ""
          THEN /\ Goto(p, "research")
               /\ last_call' = [last_call EXCEPT ![p] = "none"]
               /\ UNCHANGED <<research_results, all_results, fetch_calls,
                              query_fetches, saved_rows>>
          ELSE \E o \in outcomes :
                LET r == fetch_page_content(o)
                    row == result_data(cur_query[p], res, r.value)
                IN /\ fetch_calls' = [fetch_calls EXCEPT ![p] = @ + 1]
                   /\ query_fetches' = [query_fetches EXCEPT ![p] = @ + 1]
                   /\ last_call' = [last_call EXCEPT ![p] =
                                       IF o \in FetchFailures THEN "fetch_failed" ELSE "fetch_ok"]
                   /\ IF r.raised
                      THEN /\ Handle(p, r.exc)
                           /\ UNCHANGED <<research_results, all_results, saved_rows>>
                      ELSE /\ all_results' = [all_results EXCEPT ![p] = Append(@, row)]
                           /\ IF should_save(request_id[p])
                              THEN \/ /\ research_results' =
                                           save_research_result(research_results, request_id[p],
                                               cur_query[p], res.url, res.title, res.snippet, r.value)
                                      /\ saved_rows' = [saved_rows EXCEPT ![p] =
                                                          @ \cup {Len(research_results) + 1}]
                                      /\ Goto(p, "research")
                                   \/ /\ Handle(p, DbError)
                                      /\ UNCHANGED <<research_results, saved_rows>>
                              ELSE /\ Goto(p, "research")
                                   /\ UNCHANGED <<research_results, saved_rows>>
    /\ UNCHANGED <<learning_sessions, research_requests, learning_insights,
                   learning_interests, session_id, topic_choice, request_id,
                   cur_query, todo_queries, reflection, llm_calls,
                   research_returned, search_calls, search_profile, cli_calls,
                   interest_hist, parse_vars, process_exit>>

\* perform_research: return all_results
ResearchReturn(p) ==
    /\ pc[p] = "research"
    /\ todo_results[p] = <<>>
    /\ todo_queries[p] = <<>>
    /\ research_returned' = [research_returned EXCEPT ![p] = TRUE]
    /\ last_call' = [last_call EXCEPT ![p] = "none"]
    /\ Goto(p, "check")
    /\ UNCHANGED <<store, locals, llm_calls, search_calls, fetch_calls,
                   query_fetches, search_profile, saved_rows, cli_calls,
                   interest_hist, parse_vars, process_exit>>

\* if not results: mark the request and the session failed and return early
CheckResults(p) ==
    /\ pc[p] = "check"
    /\ IF no_results(all_results[p])
       THEN /\ research_requests' =
                 update_research_status(research_requests, request_id[p], "failed",
                                        "No results found")
            /\ learning_sessions' =
                 complete_learning_session(learning_sessions, session_id[p],
                     topic_of(topic_choice[p]), "failed", 0, 0, 0, "No research results")
            /\ Return(p, failed_result(topic_of(topic_choice[p])))
       ELSE /\ Goto(p, "reflect")
            /\ UNCHANGED <<research_requests, learning_sessions>>
    /\ UNCHANGED <<research_results, learning_insights, learning_interests,
                   locals, calls, cli_calls, interest_hist, parse_vars, process_exit>>

\* reflection = reflect_on_learning(topic, results, learning, ...)
Reflect(p, outcomes) ==
    /\ pc[p] = "reflect"
    /\ \E o \in outcomes :
        LET r == reflect_on_learning(o)
        IN /\ reflect_call' = [reflect_call EXCEPT ![p] = IF o.raised THEN "raised" ELSE "replied"]
           /\ IF r.raised
              THEN /\ Handle(p, r.exc)
                   /\ UNCHANGED reflection
              ELSE /\ reflection' = [reflection EXCEPT ![p] = r.value]
                   /\ Goto(p, "record")
    /\ UNCHANGED <<store, session_id, topic_choice, request_id, cur_query,
                   todo_queries, todo_results, all_results, choose_call, pending_seen,
                   research_hist, cli_calls, interest_hist, parse_vars, process_exit>>

key_insights_of(refl) == DictGet(refl, "key_insights", <<>>)
new_questions_of(refl) == DictGet(refl, "new_questions", <<>>)
new_interest_of(refl) == DictGet(refl, "new_interest_sparked", PyNone)

\* if new_interest and new_interest.get('topic')
sparked(refl) ==
    /\ Truthy(new_interest_of(refl))
    /\ DictGet(new_interest_of(refl), "topic", Null) \notin {Null, ""}

\* insight_id = learning.record_insight(...)
RecordInsight(p) ==
    /\ pc[p] = "record"
    /\ \/ /\ learning_insights' =
               record_insight(learning_insights, topic_of(topic_choice[p]),
                   key_insights_of(reflection[p]), new_questions_of(reflection[p]),
                   DictGet(reflection[p], "confidence", "medium"),
                   request_id[p], interest_of(topic_choice[p]))
          /\ Goto(p, "interest")
       \/ /\ Handle(p, DbError)
          /\ UNCHANGED learning_insights
    /\ UNCHANGED <<learning_sessions, research_requests, research_results,
                   learning_interests, locals, calls, cli_calls, interest_hist, parse_vars, process_exit>>

\* history of update_interest_insights calls: how many each interest has
\* received, and the row as it was before the latest one
LogUpdate(iid, insights) ==
    IF iid \in DOMAIN learning_interests
    THEN /\ n_updates' = [n_updates EXCEPT ![iid] = @ + 1]
         /\ last_update' = [id |-> iid, nth |-> n_updates[iid] + 1,
                            before_status |-> learning_interests[iid].status,
                            before_len |-> Len(learning_interests[iid].insights_gained),
                            added |-> Len(insights)]
    ELSE UNCHANGED <<n_updates, last_update>>

\* if interest_id: learning.update_interest_insights(interest_id, ...)
UpdateInterest(p) ==
    /\ pc[p] = "interest"
    /\ IF interest_of(topic_choice[p]) # 0
       THEN /\ learning_interests' =
                 update_interest_insights(learning_interests, interest_of(topic_choice[p]),
                     key_insights_of(reflection[p]), new_questions_of(reflection[p]))
            /\ LogUpdate(interest_of(topic_choice[p]), key_insights_of(reflection[p]))
       ELSE UNCHANGED <<learning_interests, n_updates, last_update>>
    /\ Goto(p, "spark")
    /\ UNCHANGED <<learning_sessions, research_requests, research_results,
                   learning_insights, locals, calls, cli_calls, parse_vars, process_exit>>

\* if new_interest and new_interest.get('topic'): learning.add_learning_interest(...)
SparkInterest(p) ==
    /\ pc[p] = "spark"
    /\ IF sparked(reflection[p])
       THEN /\ learning_interests' =
                 add_learning_interest(learning_interests, new_interest_of(reflection[p]).topic)
            /\ n_updates' = Append(n_updates, 0)
       ELSE UNCHANGED <<learning_interests, n_updates>>
    /\ Goto(p, "complete")
    /\ UNCHANGED <<learning_sessions, research_requests, research_results,
                   learning_insights, locals, calls, cli_calls, last_update, parse_vars, process_exit>>

\* update_research_status(request_id, 'completed'); complete_learning_session(...);
\* return {"status": "completed", ...}
Complete(p) ==
    /\ pc[p] = "complete"
    /\ research_requests' =
         update_research_status(research_requests, request_id[p], "completed", Null)
    /\ learning_sessions' =
         complete_learning_session(learning_sessions, session_id[p],
             topic_of(topic_choice[p]), "completed",
             Len(key_insights_of(reflection[p])), Len(new_questions_of(reflection[p])),
             IF sparked(reflection[p]) THEN 1 ELSE 0, Null)
    /\ Return(p, [status |-> "completed",
                  session_id |-> session_id[p],
                  topic |-> topic_of(topic_choice[p]),
                  insights |-> key_insights_of(reflection[p]),
                  new_questions |-> new_questions_of(reflection[p]),
                  summary |-> DictGet(reflection[p], "summary", ""),
                  new_interest |-> IF Truthy(new_interest_of(reflection[p]))
                                   THEN DictGet(new_interest_of(reflection[p]), "topic", Null)
                                   ELSE Null])
    /\ UNCHANGED <<research_results, learning_insights, learning_interests,
                   locals, calls, cli_calls, interest_hist, parse_vars, process_exit>>

\* ------------------------------------------------------- command surface

\* claude_learning.py learn, after run_learning_session has returned:
\* print(f"Status: {result['status']}") and the other lines; main returns
\* and the interpreter exits with code 0.  An exception that left
\* run_learning_session ends the process with a traceback and code 1.
LearnMain(p) ==
    /\ pc[p] = "done"
    /\ pc' = [pc EXCEPT ![p] = "exited"]
    /\ process_exit' = [process_exit EXCEPT ![p] =
           IF escaped[p]
           THEN [entry |-> "learn", status_line |-> Null, exit_code |-> 1]
           ELSE [entry |-> "learn", status_line |-> result[p].status, exit_code |-> 0]]
    /\ UNCHANGED <<store, result, raised, escaped, locals, calls, cli_calls,
                   interest_hist, parse_vars>>

\* sys.exit(0 if result.get("status") == "completed" else 1)
cron_exit_code(res) == IF DictGet(res, "status", Null) = "completed" THEN 0 ELSE 1

\* claude_learning_cron.py, after run_learning_session has returned:
\* print(f"Status: {result['status']}"), return result, then sys.exit.  An
\* exception that left run_learning_session is caught by main, which prints
\* ERROR and returns {"status": "error", "error": str(e)}.
CronMain(p) ==
    /\ pc[p] = "done"
    /\ pc' = [pc EXCEPT ![p] = "exited"]
    /\ process_exit' = [process_exit EXCEPT ![p] =
           IF escaped[p]
           THEN [entry |-> "cron", status_line |-> Null,
                 exit_code |-> cron_exit_code(error_result(raised[p]))]
           ELSE [entry |-> "cron", status_line |-> result[p].status,
                 exit_code |-> cron_exit_code(result[p])]]
    /\ UNCHANGED <<store, result, raised, escaped, locals, calls, cli_calls,
                   interest_hist, parse_vars>>

\* research <topic> <queries...>: learning.queue_research(...)
CliQueueResearch ==
    /\ cli_calls.queued < MaxQueued
    /\ \A p \in Procs : pc[p] = "idle"
    /\ cli_calls' = [cli_calls EXCEPT !.queued = @ + 1]
    /\ research_requests' = queue_research(research_requests, "C", 0)
    /\ UNCHANGED <<learning_sessions, research_results, learning_insights,
                   learning_interests, ctl, locals, calls, interest_hist, parse_vars, process_exit>>

\* add-interest <topic> <why>: learning.add_learning_interest(...)
CliAddInterest ==
    /\ cli_calls.added < MaxAdded
    /\ \A p \in Procs : pc[p] = "idle"
    /\ cli_calls' = [cli_calls EXCEPT !.added = @ + 1]
    /\ learning_interests' = add_learning_interest(learning_interests, "I")
    /\ n_updates' = Append(n_updates, 0)
    /\ UNCHANGED <<learning_sessions, research_requests, research_results,
                   learning_insights, ctl, locals, calls, last_update, parse_vars, process_exit>>

\* ------------------------------------------------------------ specification

RunStep(p, topics, searches, fetches, reflections) ==
    \/ StartSession(p)
    \/ ChooseTopic(p, topics)
    \/ ResolveRequest(p)
    \/ MarkInProgress(p)
    \/ Search(p, searches)
    \/ Fetch(p, fetches)
    \/ ResearchReturn(p)
    \/ CheckResults(p)
    \/ Reflect(p, reflections)
    \/ RecordInsight(p)
    \/ UpdateInterest(p)
    \/ SparkInterest(p)
    \/ Complete(p)

\* the entry point prints the summary and the process exits
ExitStep(p) ==
    \/ LearnMain(p)
    \/ CronMain(p)

\* Spec: one invocation of the cron job or of the learn command, which runs
\* one session; the other commands are used before it.  Every
\* input of the run is drawn from the full input sets.
Next ==
    \/ RunStep(1, TopicOutcomes, ProviderOutcomes, FetchOutcomes, ReflectOutcomes)
    \/ ExitStep(1)
    \/ CliQueueResearch
    \/ CliAddInterest

Spec == Init /\ [][Next]_vars

\* SpecLife: the life of research requests over several invocations, one after
\* the other, with one query per topic choice and at most one hit per search.
LifeChoices ==
    {WithKey(BaseChoice(<<"q1">>), "research_id", rid) : rid \in 0..2}
LifeTopicOutcomes == {Ret(Response(BareJson, c)) : c \in LifeChoices}
LifeProviderOutcomes == {Ret(<<>>), Ret(<<RawHit(1, "href")>>)}
LifeFetchOutcomes == {"ok"}
LifeReflectOutcomes ==
    {Raise(LlmError),
     Ret(Response(BareJson,
         [summary |-> "sum", key_insights |-> <<"i1">>, new_questions |-> <<>>,
          confidence |-> "high", applicable_to |-> <<>>, new_interest_sparked |-> PyNone]))}

NextLife ==
    \/ RunStep(1, LifeTopicOutcomes, LifeProviderOutcomes,
               LifeFetchOutcomes, LifeReflectOutcomes)
    \/ ExitStep(1)
    \/ NewInvocation(1, MaxLifeSessions)
    \/ CliQueueResearch

SpecLife == Init /\ [][NextLife]_vars

\* SpecRace: overlapping invocations of run_learning_session, started by the
\* scheduler or by hand while another one is still running.  Every store
\* call is its own committed statement, so the runs interleave between any
\* two of them.  Each topic choice names research request 1 with one query,
\* a search returns no hit or one, and the reflection call succeeds.
RaceChoices == {WithKey(BaseChoice(<<"q1">>), "research_id", 1)}
RaceTopicOutcomes == {Ret(Response(BareJson, c)) : c \in RaceChoices}
RaceReflectOutcomes ==
    {Ret(Response(BareJson, r)) : r \in {x \in Reflections : x.confidence = "high"}}

NextRace ==
    \/ \E p \in Procs :
          RunStep(p, RaceTopicOutcomes, LifeProviderOutcomes,
                  LifeFetchOutcomes, RaceReflectOutcomes)
    \/ CliQueueResearch

SpecRace == Init /\ [][NextRace]_vars

\* SpecInterest: add_learning_interest followed by update_interest_insights
\* calls with lists of 0, 1, 5 and 11 insights.
InsightLists == {Rep("i", n) : n \in {0, 1, 5, DEEPENING_THRESHOLD + 1}}
QuestionLists == {<<>>, <<"n1">>, <<"n2", "n3">>}

UpdateInterestCall ==
    /\ cli_calls.updates < MaxUpdates
    /\ cli_calls' = [cli_calls EXCEPT !.updates = @ + 1]
    /\ \E iid \in DOMAIN learning_interests, ins \in InsightLists, qs \in QuestionLists :
        /\ learning_interests' = update_interest_insights(learning_interests, iid, ins, qs)
        /\ LogUpdate(iid, ins)
    /\ UNCHANGED <<learning_sessions, research_requests, research_results,
                   learning_insights, ctl, locals, calls, parse_vars, process_exit>>

NextInterest ==
    \/ CliAddInterest
    \/ UpdateInterestCall

SpecInterest == Init /\ [][NextInterest]_vars

\* SpecStored: the same calls on a store that already holds an interest, in
\* any status of the status enum and with 0 or DEEPENING_THRESHOLD insights.
\* The enum is declared by the schema: curious, exploring, deepening "and
\* others"; "other" stands for a status of the enum outside the three that
\* get_learning_interests lists by default.
INTEREST_STATUS_ENUM == {"curious", "exploring", "deepening", "other"}

StoredInterests ==
    {[topic |-> "S", status |-> st, insights_gained |-> Rep("i", n),
      remaining_questions |-> <<>>] :
        st \in INTEREST_STATUS_ENUM, n \in {0, DEEPENING_THRESHOLD}}

InitStored ==
    /\ learning_sessions = <<>>
    /\ research_requests = <<>>
    /\ research_results = <<>>
    /\ learning_insights = <<>>
    /\ learning_interests \in {<<row>> : row \in StoredInterests}
    /\ InitProcs
    /\ cli_calls = [queued |-> 0, added |-> 0, updates |-> 0]
    /\ n_updates = <<0>>
    /\ last_update = NoUpdate
    /\ reply = NoReply
    /\ parsed = NotParsed

SpecStored == InitStored /\ [][NextInterest]_vars

\* SpecParse: the reply parsing of the two LLM callers on every reply text of
\* up to MaxReplyLen tokens, and on a reply without content blocks.
Texts == UNION {[1..n -> Tokens] : n \in 0..MaxReplyLen}
Replies == {NoReply} \cup {[content |-> <<t>>] : t \in Texts}

SampleChoice == BaseChoice(<<"q1", "q2">>)
SampleReflection ==
    [summary |-> "sum", key_insights |-> <<"i1">>, new_questions |-> <<"n1">>,
     confidence |-> "high", applicable_to |-> <<>>,
     new_interest_sparked |-> [topic |-> "N", why |-> "y"]]

InitParse ==
    /\ InitStore /\ InitProcs /\ InitRest
    /\ reply \in Replies
    /\ parsed = NotParsed

ParseTopicChoice ==
    /\ parsed.by = "none"
    /\ LET r == choose_learning_topic(Ret([content |-> reply.content, value |-> SampleChoice]))
       IN parsed' = [by |-> "choose_learning_topic", raised |-> r.raised, value |-> r.value]
    /\ UNCHANGED <<store, ctl, locals, calls, cli_calls, interest_hist, reply, process_exit>>

ParseReflection ==
    /\ parsed.by = "none"
    /\ LET r == reflect_on_learning(Ret([content |-> reply.content, value |-> SampleReflection]))
       IN parsed' = [by |-> "reflect_on_learning", raised |-> r.raised, value |-> r.value]
    /\ UNCHANGED <<store, ctl, locals, calls, cli_calls, interest_hist, reply, process_exit>>

NextParse ==
    \/ ParseTopicChoice
    \/ ParseReflection

SpecParse == InitParse /\ [][NextParse]_vars

\* ------------------------------------------------------------------- claims

RequestIs(rid, status, error) ==
    rid \in DOMAIN research_requests =>
        /\ research_requests[rid].status = status
        /\ research_requests[rid].error_message = error

C3_BoundedCalls ==
    \A p \in Procs :
        /\ search_calls[p] <= 3
        /\ query_fetches[p] <= 2
        /\ fetch_calls[p] <= 6
        /\ cur_query[p] # Null =>
             \E i \in 1..3 : /\ i <= Len(queries_of(topic_choice[p]))
                             /\ queries_of(topic_choice[p])[i] = cur_query[p]

\* 4 queries were supplied, 3 were searched and 6 pages were fetched
C3_Witness ==
    /\ Len(queries_of(topic_choice[1])) = 4
    /\ research_returned[1]
    /\ search_calls[1] = 3
    /\ fetch_calls[1] = 6

\* C4: an exception raised at any step of run_learning_session is caught by
\* the outermost handler: it does not escape, and the run returns a result
\* with status 'error' whose error field is the message of the exception.
C4_ExceptionsCaught ==
    \A p \in Procs :
        /\ ~escaped[p]
        /\ raised[p] # NoExc =>
             /\ pc[p] \in {"done", "exited"}
             /\ result[p].status = "error"
             /\ result[p].error = raised[p].msg

\* record_insight raised after a reflection was obtained
C4_Witness ==
    /\ raised[1] = DbError
    /\ reflect_call[1] = "replied"
    /\ pc[1] = "done"
    /\ result[1].status = "error"

\* C5 as stated: a failure of the LLM call of choose_learning_topic or of
\* reflect_on_learning is caught at that call site and replaced by the
\* component's fallback value; no exception reaches run_learning_session.
C5_LlmFailureDegraded ==
    \A p \in Procs :
        /\ choose_call[p] = "raised" =>
             raised[p] = NoExc /\ topic_choice[p] = FallbackTopicChoice
        /\ reflect_call[p] = "raised" =>
             raised[p] = NoExc /\ reflection[p] = FallbackReflection

\* C5 amended: a failure of the LLM call of choose_learning_topic or of
\* reflect_on_learning is not caught at that call site; it propagates to
\* run_learning_session, whose outermost handler returns status 'error' with
\* the exception message, and no fallback value is put in its place.
C5_LlmFailurePropagates ==
    \A p \in Procs :
        /\ choose_call[p] = "raised" =>
             /\ pc[p] \in {"done", "exited"}
             /\ raised[p] = LlmError
             /\ result[p] = [status |-> "error", error |-> "api unavailable"]
             /\ topic_choice[p] = PyNone
        /\ reflect_call[p] = "raised" =>
             /\ pc[p] \in {"done", "exited"}
             /\ raised[p] = LlmError
             /\ result[p] = [status |-> "error", error |-> "api unavailable"]
             /\ reflection[p] = PyNone

\* the LLM call of reflect_on_learning failed after research found results
C5_Witness ==
    /\ reflect_call[1] = "raised"
    /\ Len(all_results[1]) > 0
    /\ result[1].status = "error"

\* C6: whatever failure the underlying call meets, search_web returns an
\* empty list and fetch_page_content returns null; neither raises, and
\* perform_research goes on with the next result or query.
C6_SearchFetchNeverRaise ==
    \A p \in Procs :
        /\ raised[p].cls \notin {"DuckDuckGoSearchException", "requests.RequestException"}
        /\ last_call[p] = "search_failed" =>
             /\ todo_results[p] = <<>>
             /\ pc[p] = "research"
        /\ last_call[p] = "fetch_failed" =>
             /\ Len(all_results[p]) > 0
             /\ all_results[p][Len(all_results[p])].content = Null
             /\ pc[p] = "research" \/ raised[p] = DbError

\* a fetch has failed and a later search has failed too, and the run goes on
C6_Witness ==
    /\ last_call[1] = "search_failed"
    /\ \E i \in DOMAIN all_results[1] : all_results[1][i].content = Null
    /\ pc[1] = "research"
    /\ todo_queries[1] # <<>>

ResultKeys(p) == DOMAIN result[p]

\* C7 as stated: every returned value contains a status and a topic, and a
\* 'completed' one also insights, new_questions, summary and the sparked
\* interest topic.
C7_StatusAndTopicAlways ==
    \A p \in Procs :
        pc[p] = "done" =>
            /\ {"status", "topic"} \subseteq ResultKeys(p)
            /\ result[p].status = "completed" =>
                 {"insights", "new_questions", "summary", "new_interest"} \subseteq ResultKeys(p)

\* C7 amended: every returned value contains a status; the 'completed' and
\* the 'failed' value contain the topic, the 'error' value holds only status
\* and error; a 'completed' value also holds insights, new_questions, summary
\* and the sparked interest topic (or null).
C7_ResultShape ==
    \A p \in Procs :
        pc[p] = "done" =>
            /\ "status" \in ResultKeys(p)
            /\ result[p].status \in {"completed", "failed", "error"}
            /\ result[p].status \in {"completed", "failed"} =>
                 /\ "topic" \in ResultKeys(p)
                 /\ result[p].topic = topic_of(topic_choice[p])
            /\ result[p].status = "error" => ResultKeys(p) = {"status", "error"}
            /\ result[p].status = "completed" =>
                 /\ {"insights", "new_questions", "summary", "new_interest"} \subseteq ResultKeys(p)
                 /\ result[p].insights = key_insights_of(reflection[p])
                 /\ result[p].new_questions = new_questions_of(reflection[p])
                 /\ result[p].new_interest \in {Null, "N"}

\* a run has returned the 'error' value after its topic was chosen
C7_Witness ==
    /\ pc[1] = "done"
    /\ result[1].status = "error"
    /\ topic_choice[1] # PyNone
    /\ "topic" \notin ResultKeys(1)

FourQueries(p) == Len(queries_of(topic_choice[p])) = 4
SavedToRequest(p, n) ==
    /\ Cardinality(saved_rows[p]) = n
    /\ \A i \in saved_rows[p] : research_results[i].request_id = request_id[p]
SessionCompleted(p) ==
    /\ learning_sessions[session_id[p]].status = "completed"
    /\ learning_sessions[session_id[p]].insights_count = Len(key_insights_of(reflection[p]))
    /\ learning_sessions[session_id[p]].new_questions_count = Len(new_questions_of(reflection[p]))

StatusRank(status) ==
    CASE status = "pending" -> 0
      [] status = "in_progress" -> 1
      [] OTHER -> 2

\* C2: over any sequence of runs and queue_research calls, the status of a
\* research request only moves forward through pending -> in_progress ->
\* completed|failed, and a completed or failed request never changes again.
C2_StatusOnlyForward ==
    [][\A i \in DOMAIN research_requests :
        /\ StatusRank(research_requests'[i].status) >= StatusRank(research_requests[i].status)
        /\ research_requests[i].status \in {"completed", "failed"} =>
             research_requests'[i].status = research_requests[i].status]_vars

\* C8: for an interest created by add_learning_interest and then only updated
\* by update_interest_insights, the first update moves it from curious to
\* exploring, and a later update leaves the status as it was unless the
\* stored plus the appended insights number more than 10, which makes it
\* 'deepening'.
C8_InterestStatusProgress ==
    last_update.id # 0 =>
        LET row == learning_interests[last_update.id]
        IN /\ last_update.nth = 1 =>
                /\ last_update.before_status = "curious"
                /\ row.status = "exploring"
           /\ last_update.nth > 1 =>
                row.status = IF last_update.before_len + last_update.added > 10
                             THEN "deepening"
                             ELSE last_update.before_status

\* a third update took an exploring interest holding 10 insights (which had
\* left it exploring) to deepening
C8_Witness ==
    /\ last_update.nth = 3
    /\ last_update.before_status = "exploring"
    /\ last_update.before_len = 10
    /\ last_update.added = 1
    /\ learning_interests[last_update.id].status = "deepening"

\* the pieces of a reply text between code fences, each with the flag
\* whether a fence precedes it
Segments(text) ==
    {[after_fence |-> i > 1, body |-> SubSeq(text, i, j)] :
        <<i, j>> \in {ij \in (1..Len(text) + 1) \X (0..Len(text)) :
            /\ ij[2] >= ij[1] - 1
            /\ ij[1] = 1 \/ text[ij[1] - 1] = "F"
            /\ ij[2] = Len(text) \/ text[ij[2] + 1] = "F"
            /\ \A k \in ij[1]..ij[2] : text[k] # "F"}}

\* a piece is a JSON value, possibly in white space, and possibly tagged
\* json when it follows a fence
IsJsonPiece(seg) ==
    \/ Strip(seg.body) = <<"V">>
    \/ /\ seg.after_fence
       /\ seg.body # <<>>
       /\ Head(seg.body) = "j"
       /\ Strip(Tail(seg.body)) = <<"V">>

\* the reply has no content, or no piece of its text is JSON
NotJson(r) ==
    \/ r.content = <<>>
    \/ \A seg \in Segments(r.content[1]) : ~IsJsonPiece(seg)

\* C9: for every reply that is not JSON, fenced or not, choose_learning_topic
\* returns the fallback choice with topic 'Python best practices 2026' and
\* exactly the two canned queries, and reflect_on_learning returns confidence
\* 'low', no insights, no questions and no sparked interest; neither raises.
C9_NonJsonFallsBack ==
    NotJson(reply) =>
        /\ ~parsed.raised
        /\ parsed.by = "choose_learning_topic" =>
             /\ parsed.value = FallbackTopicChoice
             /\ parsed.value.topic = "Python best practices 2026"
             /\ parsed.value.search_queries =
                  <<"Python best practices 2026", "modern Python development patterns">>
        /\ parsed.by = "reflect_on_learning" =>
             /\ parsed.value.confidence = "low"
             /\ parsed.value.key_insights = <<>>
             /\ parsed.value.new_questions = <<>>
             /\ ~Truthy(parsed.value.new_interest_sparked)

\* a fenced reply that is not JSON was given to choose_learning_topic
C9_Witness ==
    /\ reply = [content |-> << <<"F", "j", "x", "F">> >>]
    /\ parsed.by = "choose_learning_topic"
    /\ parsed.value = FallbackTopicChoice

\* C11: a process that ran a session from the command surface (learn or the
\* cron entry point) has printed the status line of the session's result, and
\* its exit code is 0 exactly when that status is 'completed'.
C11_ExitCodeReflectsStatus ==
    \A p \in Procs :
        pc[p] = "exited" =>
            /\ process_exit[p].status_line = result[p].status
            /\ (process_exit[p].exit_code = 0) <=> (result[p].status = "completed")

\* C12: every row of research_results carries the id of a row of
\* research_requests, also when the topic choice supplied the research_id.
C12_ResultsReferenceRequest ==
    \A i \in DOMAIN research_results :
        research_results[i].request_id \in DOMAIN research_requests

IsPrefix(a, b) == Len(a) <= Len(b) /\ \A k \in 1..Len(a) : b[k] = a[k]

\* C13: every step keeps, for each interest, the insights_gained and the
\* remaining_questions it had as the leading part of the new lists: an
\* update only appends, it never removes or replaces a stored entry.
C13_UpdateAppends ==
    [][\A i \in DOMAIN learning_interests :
          /\ IsPrefix(learning_interests[i].insights_gained,
                      learning_interests'[i].insights_gained)
          /\ IsPrefix(learning_interests[i].remaining_questions,
                      learning_interests'[i].remaining_questions)]_vars

\* the place of a status on the path curious -> exploring -> deepening
InterestRank(status) ==
    CASE status = "curious" -> 0
      [] status = "exploring" -> 1
      [] status = "deepening" -> 2

\* C14: for an interest in any status of the enum, a step either leaves the
\* status as it is or moves it forward on curious -> exploring -> deepening;
\* it never takes the interest out of a status that is not on that path, and
\* never moves it back on the path.
C14_InterestStatusEscalates ==
    [][\A i \in DOMAIN learning_interests :
          LET old == learning_interests[i].status
              new == learning_interests'[i].status
          IN \/ new = old
             \/ /\ old \in {"curious", "exploring"}
                /\ new \in {"exploring", "deepening"}
                /\ InterestRank(new) > InterestRank(old)]_vars

\* C15: when a run that has started a session row has returned, the row is
\* in a terminal status: 'completed' after a completed run, 'failed' after a
\* run without results, and after a caught exception an error or failed
\* status with the exception's message; it is never left 'in_progress'.
C15_SessionRowTerminal ==
    \A p \in Procs :
        (pc[p] \in {"done", "exited"} /\ session_id[p] # 0) =>
            LET row == learning_sessions[session_id[p]]
            IN /\ row.status # "in_progress"
               /\ result[p].status = "completed" => row.status = "completed"
               /\ result[p].status = "failed" => row.status = "failed"
               /\ result[p].status = "error" =>
                    /\ row.status \in {"error", "failed"}
                    /\ row.error_message = result[p].error

\* the save_research_result call of the latest fetch of p raised, which ended the run
SaveRaised(p) ==
    /\ pc[p] \in {"done", "exited"}
    /\ raised[p] = DbError
    /\ last_call[p] \in {"fetch_ok", "fetch_failed"}

\* the k-th row that p's perform_research has saved
SavedRow(p, k) ==
    LET i == CHOOSE j \in saved_rows[p] :
                 Cardinality({h \in saved_rows[p] : h <= j}) = k
    IN research_results[i]

\* C16: in a run with a request id, at every point between two calls of
\* perform_research and at every later point of the run, also after it was
\* aborted, the store holds one row per result obtained so far, in order and
\* under the run's request id, with the result's query, url, title, snippet
\* and content; the content is null when the fetch failed.  The one result
\* without a row is the one whose own save raised.
C16_SavedAsObtained ==
    \A p \in Procs :
        request_id[p] # 0 =>
            LET n == Len(all_results[p]) - (IF SaveRaised(p) THEN 1 ELSE 0)
            IN /\ Cardinality(saved_rows[p]) = n
               /\ saved_rows[p] \subseteq DOMAIN research_results
               /\ \A k \in 1..n :
                    LET row == SavedRow(p, k)
                        res == all_results[p][k]
                    IN /\ row.request_id = request_id[p]
                       /\ row.query_used = res.query
                       /\ row.source_url = res.url
                       /\ row.source_title = res.title
                       /\ row.snippet = res.snippet
                       /\ row.full_content = res.content
               /\ (pc[p] = "research" /\ last_call[p] = "fetch_failed") =>
                    /\ n > 0
                    /\ SavedRow(p, n).full_content = Null
                    /\ SavedRow(p, n).snippet = "s"

\* the run was aborted by the failure of the reflection call after three
\* results had been obtained, one of them with a failed fetch, and the three
\* rows are in the store
C16_Witness ==
    /\ pc[1] = "done"
    /\ result[1].status = "error"
    /\ reflect_call[1] = "raised"
    /\ request_id[1] # 0
    /\ Len(all_results[1]) = 3
    /\ Cardinality(saved_rows[1]) = 3
    /\ \E k \in 1..3 : SavedRow(1, k).full_content = Null
    /\ \E k \in 1..3 : SavedRow(1, k).full_content = "text"

\* C17: nothing keeps overlapping runs apart.  Whatever the status of its
\* request at that moment, also one that another run has written meanwhile, a
\* run's mark step sets it to 'in_progress', its no-results step to 'failed'
\* and its last step to 'completed': the status of a request that two runs
\* share is the one written last.
C17_EveryStatusWriteLands ==
    [][\A p \in Procs :
          request_id[p] \in DOMAIN research_requests =>
              LET before == research_requests[request_id[p]]
                  after == research_requests'[request_id[p]]
              IN /\ (pc[p] = "mark" /\ pc'[p] = "research") =>
                        after.status = "in_progress"
                 /\ (pc[p] = "check" /\ pc'[p] = "done") =>
                        /\ after.status = "failed"
                        /\ after.error_message = "No results found"
                 /\ (pc[p] = "complete" /\ pc'[p] = "done") =>
                        /\ after.status = "completed"
                        /\ after.error_message = before.error_message]_vars

\* two runs overlapped on request 1, which both found pending when they
\* chose: run 1 found no results and marked it 'failed', run 2 saved a row
\* under it and finished later, which turned it to 'completed' with the
\* reason of the failure still on the row
C17_Witness ==
    /\ \A p \in {1, 2} :
          /\ 1 \in pending_seen[p]
          /\ request_id[p] = 1
          /\ pc[p] = "done"
    /\ result[1].status = "failed"
    /\ result[2].status = "completed"
    /\ saved_rows[2] # {}
    /\ research_requests[1].status = "completed"
    /\ research_requests[1].error_message = "No results found"

============================================================================
